---- MODULE Spec2Model ----
(***************************************************************************)
(* A model of the binder of FnckSQL (src/binder/mod.rs): the scope         *)
(* context (BinderContext), the binder tree (Binder) and the statement    *)
(* dispatch (Binder::bind, bind_set_expr, command_type).                   *)
(*                                                                         *)
(* The module holds one set of variables and several specifications, one   *)
(* per group of operations, on a chain of binders; each starts from        *)
(* freshly made contexts, but for SpecExtend, whose two binders are in     *)
(* the middle of a SELECT:                                                 *)
(*   SpecTemp   temp_table() on contexts that share the counter            *)
(*   SpecAgg    input_ref_index and the registration of aggregate calls    *)
(*              and group-by expressions                                   *)
(*   SpecStep   step, sub_query, sub_queries_at_now                        *)
(*   SpecTable  add_table_alias, table, table_and_bind on one context      *)
(*   SpecScope  table_and_bind and bind_table on the chain of scopes       *)
(*   SpecBind   Binder::bind, bind_set_expr, command_type                  *)
(*   SpecExtend add_table_alias, add_alias, add_using, table_and_bind and  *)
(*              Binder::extend on the root binder and its child            *)
(*   SpecIdent  is_valid_identifier                                        *)
(***************************************************************************)
EXTENDS Integers, Sequences, FiniteSets, TLC

\* ------------------------------------------------------------ bounds

\* The number of binders (each owning one scope context) of a statement tree.
NScopes == 3
\* The number of temp_table() calls of one run.
MaxTempCalls == 3
\* The number of expressions registered (aggregate calls and group-by
\* expressions together, over all contexts) in one run.
MaxExprs == 3
\* The number of subqueries staged in one run.
MaxStaged == 2
\* The number of bound-table entries, over all contexts.
MaxBound == 2
\* The depth to which EXPLAIN statements are nested.
MaxExplain == 2

Scopes == 1..NScopes
\* Option<T>: None is the empty sequence, Some(x) the sequence of x alone.
None == <<>>
Some(x) == <<x>>
Unwrap(o) == o[1]

\* ------------------------------------------------------------- state

VARIABLES
    temp_table_id,   \* the shared Arc<AtomicUsize>
    bind_table,      \* per context: BTreeMap key -> catalog table
    expr_aliases,    \* per context: BTreeMap (table alias, column alias) -> expr
    table_aliases,   \* per context: HashMap alias -> real name
    group_by_exprs,  \* per context: Vec of expressions
    agg_calls,       \* per context: Vec of expressions
    using,           \* per context: HashSet of column names
    bind_step,       \* per context: QueryBindStep
    sub_queries,     \* per context: HashMap step -> Vec of subqueries
    parent,          \* per binder: the parent binder, or None
    fetched,         \* per context: the value a running temp_table() read, or None
    temp_names,      \* the names temp_table() has returned, in order of return
    assigned,        \* per context: the registrations made, each with its index
    staged,          \* the subqueries staged and not yet drained, in order of staging
    drained,         \* the plans of the subqueries the drains have returned, in order
    ret              \* what the last operation returned

ctxVars == <<bind_table, expr_aliases, table_aliases, group_by_exprs, agg_calls,
             using, bind_step, sub_queries>>
tempVars == <<temp_table_id, fetched, temp_names>>
logVars == <<assigned, staged, drained>>
vars == <<temp_table_id, bind_table, expr_aliases, table_aliases, group_by_exprs,
          agg_calls, using, bind_step, sub_queries, parent, fetched, temp_names,
          assigned, staged, drained, ret>>

NoRet == [op |-> "none"]

\* The empty map: a function with an empty domain.
EmptyMap == [x \in {} |-> None]

\* ------------------------------------------------- BinderContext::new

\* The fields BinderContext::new sets, for every context of the tree.
NewContexts ==
    /\ bind_table = [c \in Scopes |-> EmptyMap]
    /\ expr_aliases = [c \in Scopes |-> EmptyMap]
    /\ table_aliases = [c \in Scopes |-> EmptyMap]
    /\ group_by_exprs = [c \in Scopes |-> <<>>]
    /\ agg_calls = [c \in Scopes |-> <<>>]
    /\ using = [c \in Scopes |-> {}]
    /\ bind_step = [c \in Scopes |-> "From"]
    /\ sub_queries = [c \in Scopes |-> EmptyMap]

\* Nothing registered and nothing staged yet.
NewLogs == assigned = [c \in Scopes |-> <<>>] /\ staged = <<>> /\ drained = <<>>

\* No temp_table() call has been made.
NewTemp == fetched = [c \in Scopes |-> None] /\ temp_names = <<>>

\* One chain of binders: binder 1 is the root, binder b + 1 a child of b.
ChainBinders == parent = [b \in Scopes |-> IF b = 1 THEN None ELSE Some(b - 1)]


\* -------------------------------------------------------- temp_table

\* The values the caller may hand in as the counter's start.
StartIds == {0, 9, 99}

DigitChar(d) == <<"0", "1", "2", "3", "4", "5", "6", "7", "8", "9">>[d + 1]

\* The decimal digits of n, as format!'s {} writes a usize.
RECURSIVE Decimal(_)
Decimal(n) == IF n < 10 THEN <<DigitChar(n)>>
              ELSE Append(Decimal(n \div 10), DigitChar(n % 10))

\* format!("_temp_table_{}_", n)
format_temp_table(n) == <<"_temp_table_">> \o Decimal(n) \o <<"_">>

\* A mutant of fetch_add: the counter is left as it was.
fetch_add_lost(cur, val) == cur

\* AtomicUsize::fetch_add's new value (the old one is what the call returns).
fetch_add(cur, val) == cur + val

\* temp_table, up to and including the atomic fetch_add(1, SeqCst).
temp_table_fetch(c) ==
    /\ fetched[c] = None
    /\ Len(temp_names) + Cardinality({d \in Scopes : fetched[d] # None}) < MaxTempCalls
    /\ fetched' = [fetched EXCEPT ![c] = Some(temp_table_id)]
    /\ temp_table_id' = fetch_add(temp_table_id, 1)
    /\ ret' = [op |-> "fetch_add", ctx |-> c, val |-> temp_table_id]
    /\ UNCHANGED <<ctxVars, parent, temp_names, logVars>>

\* temp_table, from the format! to the return of the name.
temp_table_return(c) ==
    /\ fetched[c] # None
    /\ temp_names' = Append(temp_names, [ctx |-> c, read |-> Unwrap(fetched[c]),
                                         name |-> format_temp_table(Unwrap(fetched[c]))])
    /\ fetched' = [fetched EXCEPT ![c] = None]
    /\ ret' = [op |-> "temp_table", ctx |-> c, val |-> format_temp_table(Unwrap(fetched[c]))]
    /\ UNCHANGED <<ctxVars, parent, temp_table_id, logVars>>

InitTemp ==
    /\ NewContexts
    /\ ChainBinders
    /\ temp_table_id \in StartIds
    /\ NewTemp
    /\ NewLogs
    /\ ret = NoRet

NextTemp == \E c \in Scopes : temp_table_fetch(c) \/ temp_table_return(c)

SpecTemp == InitTemp /\ [][NextTemp]_vars

\* The number a synthesized name carries: its decimal digits read back.
DigitValue(ch) == CHOOSE d \in 0..9 : DigitChar(d) = ch
RECURSIVE ParseDecimal(_)
ParseDecimal(ds) == IF Len(ds) = 0 THEN 0
                    ELSE 10 * ParseDecimal(SubSeq(ds, 1, Len(ds) - 1)) + DigitValue(ds[Len(ds)])
NameNumber(name) == ParseDecimal(SubSeq(name, 2, Len(name) - 1))

\* The values read by the temp_table() calls begun so far.
TempReads == {temp_names[i].read : i \in 1..Len(temp_names)}
             \cup {Unwrap(fetched[c]) : c \in {d \in Scopes : fetched[d] # None}}
TempCallsBegun == Len(temp_names) + Cardinality({d \in Scopes : fetched[d] # None})

\* C1: whatever the interleaving of the temp_table() calls of the contexts that
\* share the counter, no two calls return the same name; the calls begun so far
\* have read the consecutive values just below the counter (each advanced it by
\* exactly 1), and each returned name has the form _temp_table_<n>_ with n the
\* value its call read.
C1_TempNamesUnique ==
    /\ \A i, j \in 1..Len(temp_names) :
          i # j => temp_names[i].name # temp_names[j].name
    /\ TempReads = (temp_table_id - TempCallsBegun)..(temp_table_id - 1)
    /\ \A i \in 1..Len(temp_names) :
          /\ temp_names[i].name[1] = "_temp_table_"
          /\ temp_names[i].name[Len(temp_names[i].name)] = "_"
          /\ NameNumber(temp_names[i].name) = temp_names[i].read

\* C1's case: two contexts ran temp_table() in parallel, the one that read the
\* later value returning first, and a name has two digits.
C1_Witness ==
    /\ Len(temp_names) >= 2
    /\ temp_names[1].ctx # temp_names[2].ctx
    /\ temp_names[1].read > temp_names[2].read
    /\ Len(temp_names[1].name) = 4

\* --------------------------------------------------- input_ref_index

InputRefTypes == {"AggCall", "GroupBy"}
Exprs == {"e1", "e2"}

\* A mutant of input_ref_index: GroupBy leaves out the aggregate calls.
input_ref_index_no_offset(c, ty) ==
    IF ty = "AggCall" THEN Len(agg_calls[c]) ELSE Len(group_by_exprs[c])

\* A mutant of input_ref_index: the index counts from 1.
input_ref_index_one_based(c, ty) ==
    IF ty = "AggCall" THEN Len(agg_calls[c]) + 1
    ELSE Len(agg_calls[c]) + Len(group_by_exprs[c]) + 1

\* BinderContext::input_ref_index
input_ref_index(c, ty) ==
    IF ty = "AggCall" THEN Len(agg_calls[c])
    ELSE Len(agg_calls[c]) + Len(group_by_exprs[c])

\* A call of input_ref_index (&self): it returns the index and writes nothing.
input_ref_index_call(c, ty) ==
    /\ ret' = [op |-> "input_ref_index", ctx |-> c, ty |-> ty,
               val |-> input_ref_index(c, ty)]
    /\ UNCHANGED <<ctxVars, parent, tempVars, logVars>>

RECURSIVE SumLen(_, _)
SumLen(f, n) == IF n = 0 THEN 0 ELSE Len(f[n]) + SumLen(f, n - 1)
\* The registrations made so far, over all contexts.
NumRegistered == SumLen(assigned, NScopes)

\* A registration by the caller (the aggregate binder): it takes
\* input_ref_index(ty) and then pushes the expression onto the sequence of
\* that kind.
register(c, ty, e) ==
    /\ NumRegistered < MaxExprs
    /\ LET index == input_ref_index(c, ty) IN
         /\ assigned' = [assigned EXCEPT ![c] = Append(@, [ty |-> ty, index |-> index])]
         /\ ret' = [op |-> "register", ctx |-> c, ty |-> ty, val |-> index]
    /\ IF ty = "AggCall"
         THEN agg_calls' = [agg_calls EXCEPT ![c] = Append(@, e)]
              /\ UNCHANGED group_by_exprs
         ELSE group_by_exprs' = [group_by_exprs EXCEPT ![c] = Append(@, e)]
              /\ UNCHANGED agg_calls
    /\ UNCHANGED <<bind_table, expr_aliases, table_aliases, using, bind_step,
                   sub_queries, parent, tempVars, staged, drained>>

InitAgg ==
    /\ NewContexts
    /\ ChainBinders
    /\ temp_table_id = 0
    /\ NewTemp
    /\ NewLogs
    /\ ret = NoRet

NextAgg ==
    \E c \in Scopes, ty \in InputRefTypes :
        \/ input_ref_index_call(c, ty)
        \/ \E e \in Exprs : register(c, ty, e)

SpecAgg == InitAgg /\ [][NextAgg]_vars

\* The registrations of context c of kind ty.
Registered(c, ty) == {i \in 1..Len(assigned[c]) : assigned[c][i].ty = ty}
\* In context c every aggregate call was registered before the first group-by
\* expression.
AggregatesFirst(c) ==
    \A i, j \in 1..Len(assigned[c]) :
        (assigned[c][i].ty = "GroupBy" /\ assigned[c][j].ty = "AggCall") => j < i

\* C2, as stated: over any sequence of registrations of a scope the indices
\* assigned are contiguous, start at 0 and never repeat.
C2_IndicesContiguousAnyOrder ==
    \A c \in Scopes :
        /\ \A i, j \in 1..Len(assigned[c]) :
              i # j => assigned[c][i].index # assigned[c][j].index
        /\ {assigned[c][i].index : i \in 1..Len(assigned[c])} = 0..(Len(assigned[c]) - 1)

\* C2, amended: over any sequence of registrations of a scope in which every
\* aggregate call is registered before the first group-by expression, the
\* i-th registration gets index i - 1: the indices are contiguous, start at 0
\* and never repeat.
C2_IndicesContiguousAggFirst ==
    \A c \in Scopes :
        AggregatesFirst(c) =>
            \A i \in 1..Len(assigned[c]) : assigned[c][i].index = i - 1

\* C2's case: a scope with aggregate calls and then group-by expressions,
\* MaxExprs registrations in all.
C2_Witness ==
    \E c \in Scopes :
        /\ AggregatesFirst(c)
        /\ Len(assigned[c]) >= 3
        /\ Registered(c, "AggCall") # {}
        /\ Registered(c, "GroupBy") # {}

\* C3: input_ref_index is a function of the two lengths alone:
\* input_ref_index(AggCall) is the number k of aggregate calls registered,
\* input_ref_index(GroupBy) is k + m with m the number of group-by expressions
\* registered, a call returns that value, and a call changes no state of the
\* context.
C3_InputRefIndexPure ==
    /\ [](\A c \in Scopes :
            /\ input_ref_index(c, "AggCall") = Cardinality(Registered(c, "AggCall"))
            /\ input_ref_index(c, "GroupBy") =
                 Cardinality(Registered(c, "AggCall")) + Cardinality(Registered(c, "GroupBy")))
    /\ [](ret.op = "input_ref_index" =>
            ret.val = IF ret.ty = "AggCall"
                        THEN Cardinality(Registered(ret.ctx, "AggCall"))
                        ELSE Len(assigned[ret.ctx]))
    /\ [][\A c \in Scopes, ty \in InputRefTypes :
            input_ref_index_call(c, ty) => UNCHANGED <<ctxVars, parent, tempVars>>]_vars

\* C3's case: input_ref_index(GroupBy) was called in a scope with k >= 1
\* aggregate calls followed by m >= 1 group-by expressions.
C3_Witness ==
    /\ ret.op = "input_ref_index"
    /\ ret.ty = "GroupBy"
    /\ AggregatesFirst(ret.ctx)
    /\ Registered(ret.ctx, "AggCall") # {}
    /\ Registered(ret.ctx, "GroupBy") # {}
    /\ ret.val = Len(assigned[ret.ctx])

\* ------------------------------ step, sub_query, sub_queries_at_now

\* QueryBindStep
Steps == {"From", "Join", "Where", "Agg", "Having", "Distinct", "Sort", "Project", "Limit"}

\* The contexts the step operations are run on: the root's.
StepScopes == {1}

\* SubQueryType, but for the plan it carries.
SubQueryShapes == {[kind |-> "SubQuery", negated |-> FALSE],
                   [kind |-> "InSubQuery", negated |-> FALSE],
                   [kind |-> "InSubQuery", negated |-> TRUE]}

\* The plan of the next subquery to be bound: each has a plan of its own.
NextPlan == Len(staged) + Len(drained) + 1

\* HashMap::entry(k).or_default().push(v)
EntryPush(m, k, v) ==
    IF k \in DOMAIN m THEN [m EXCEPT ![k] = Append(@, v)]
    ELSE [x \in DOMAIN m \cup {k} |-> IF x = k THEN <<v>> ELSE m[x]]

\* A mutant of MapRemove: every entry is removed.
MapRemoveAll(m, k) == [x \in {} |-> m[x]]

\* A mutant of MapRemove: the entry is left in the map.
MapRemoveNothing(m, k) == m

\* HashMap::remove(k), the map left
MapRemove(m, k) == [x \in DOMAIN m \ {k} |-> m[x]]

\* HashMap::remove(k), the value returned
MapTake(m, k) == IF k \in DOMAIN m THEN Some(m[k]) ELSE None

\* A mutant of step: a move is accepted only forward in the clause order, and
\* it drops the subqueries staged at the step it leaves.
step_forward_drops_staged(c, s) ==
    /\ bind_step[c] \in {"From", "Join", "Where", "Agg"} \/ s \notin {"From", "Join", "Where"}
    /\ bind_step' = [bind_step EXCEPT ![c] = s]
    /\ sub_queries' = [sub_queries EXCEPT
                         ![c] = [x \in DOMAIN @ \ {bind_step[c]} |-> @[x]]]
    /\ ret' = [op |-> "step", ctx |-> c, val |-> s]
    /\ UNCHANGED <<bind_table, expr_aliases, table_aliases, group_by_exprs, agg_calls,
                   using, parent, tempVars, logVars>>

\* BinderContext::step
step(c, s) ==
    /\ bind_step' = [bind_step EXCEPT ![c] = s]
    /\ ret' = [op |-> "step", ctx |-> c, val |-> s]
    /\ UNCHANGED <<bind_table, expr_aliases, table_aliases, group_by_exprs, agg_calls,
                   using, sub_queries, parent, tempVars, logVars>>

\* BinderContext::step_now
step_now(c) == bind_step[c]

\* BinderContext::is_step
is_step(c, s) == bind_step[c] = s

\* BinderContext::sub_query
sub_query(c, sq) ==
    /\ Len(staged) + Len(drained) < MaxStaged
    /\ sub_queries' = [sub_queries EXCEPT ![c] = EntryPush(@, bind_step[c], sq)]
    /\ staged' = Append(staged, [ctx |-> c, step |-> bind_step[c], sq |-> sq])
    /\ ret' = [op |-> "sub_query", ctx |-> c, val |-> sq]
    /\ UNCHANGED <<bind_table, expr_aliases, table_aliases, group_by_exprs, agg_calls,
                   using, bind_step, parent, tempVars, assigned, drained>>

\* BinderContext::sub_queries_at_now
sub_queries_at_now(c) ==
    LET taken == MapTake(sub_queries[c], bind_step[c]) IN
    /\ sub_queries' = [sub_queries EXCEPT ![c] = MapRemove(@, bind_step[c])]
    /\ ret' = [op |-> "sub_queries_at_now", ctx |-> c, step |-> bind_step[c],
               val |-> taken]
    /\ staged' = SelectSeq(staged, LAMBDA e : ~(e.ctx = c /\ e.step = bind_step[c]))
    /\ drained' = IF taken = None THEN drained
                  ELSE drained \o [i \in 1..Len(Unwrap(taken)) |-> Unwrap(taken)[i].plan]
    /\ UNCHANGED <<bind_table, expr_aliases, table_aliases, group_by_exprs, agg_calls,
                   using, bind_step, parent, tempVars, assigned>>

InitStep ==
    /\ NewContexts
    /\ ChainBinders
    /\ temp_table_id = 0
    /\ NewTemp
    /\ NewLogs
    /\ ret = NoRet

NextStep ==
    \E c \in StepScopes :
        \/ \E s \in Steps : step(c, s)
        \/ \E sh \in SubQueryShapes :
              sub_query(c, [kind |-> sh.kind, negated |-> sh.negated, plan |-> NextPlan])
        \/ sub_queries_at_now(c)

SpecStep == InitStep /\ [][NextStep]_vars

\* The subqueries staged in context c while its step was s and not yet
\* drained, in the order of staging; None when there are none.
StagedAt(c, s) ==
    LET es == SelectSeq(staged, LAMBDA e : e.ctx = c /\ e.step = s) IN
    IF es = <<>> THEN None ELSE Some([i \in 1..Len(es) |-> es[i].sq])

\* C4: a drain made while the current step is S returns the subqueries staged
\* while the step was S and not yet drained, in the order of staging, or None
\* when there are none; it leaves the lists of every other step, and every
\* other context, as they were.
C4_DrainReturnsCurrentStep ==
    [][\A c \in StepScopes :
         sub_queries_at_now(c) =>
            /\ ret'.val = StagedAt(c, bind_step[c])
            /\ \A s \in Steps \ {bind_step[c]} :
                 MapTake(sub_queries'[c], s) = MapTake(sub_queries[c], s)
            /\ \A d \in Scopes \ {c} : sub_queries'[d] = sub_queries[d]]_vars

\* C4's case: with subqueries staged at two steps, a drain at one of them
\* returned its subquery and left the other step's waiting.
C4_Witness ==
    /\ ret.op = "sub_queries_at_now"
    /\ ret.val # None
    /\ DOMAIN sub_queries[ret.ctx] # {}

\* C5: draining consumes: no subquery is returned by two drains, and a drain
\* that follows a drain at the same step, with nothing staged in between,
\* returns None.
C5_DrainedOnce ==
    /\ [](\A i, j \in 1..Len(drained) : i # j => drained[i] # drained[j])
    /\ [][\A c \in StepScopes :
            (/\ ret.op = "sub_queries_at_now"
             /\ ret.ctx = c
             /\ ret.step = bind_step[c]
             /\ sub_queries_at_now(c)) => ret'.val = None]_vars

\* C5's case: a drain returned two subqueries, and the drain repeated at that
\* step returned None.
C5_Witness ==
    /\ ret.op = "sub_queries_at_now"
    /\ ret.val = None
    /\ Len(drained) >= 2
    /\ staged = <<>>

\* --------------------------- table, table_and_bind, add_table_alias

\* Result<T, DatabaseError>; an error is its kind followed by what it carries.
Ok(x) == [ok |-> TRUE, val |-> x]
Err(e) == [ok |-> FALSE, err |-> e]

\* The tables of the catalog (those build_test_catalog creates).
CatalogTables == {"t1", "t2"}

\* Transaction::table: the catalog's table of that name, if there is one.
transaction_table(name) == IF name \in CatalogTables THEN Some(name) ELSE None

\* JoinType, two of its variants, in the order of their declaration.
JoinOrder == <<"Inner", "LeftOuter">>
\* Strings in the order of str's Ord.
NameOrder == <<"a", "b", "t1", "t2">>
Names == {NameOrder[i] : i \in 1..Len(NameOrder)}

Rank(order, x) == CHOOSE i \in 1..Len(order) : order[i] = x
\* Option's Ord: None is less than every Some.
OptRank(order, o) == IF o = None THEN 0 ELSE Rank(order, Unwrap(o))

\* A mutant of KeyLess: the alias is compared before the table name.
KeyLessAliasFirst(k1, k2) ==
    LET r1 == <<OptRank(NameOrder, k1[2]), Rank(NameOrder, k1[1]), OptRank(JoinOrder, k1[3])>>
        r2 == <<OptRank(NameOrder, k2[2]), Rank(NameOrder, k2[1]), OptRank(JoinOrder, k2[3])>>
    IN \/ r1[1] < r2[1]
       \/ r1[1] = r2[1] /\ r1[2] < r2[2]
       \/ r1[1] = r2[1] /\ r1[2] = r2[2] /\ r1[3] < r2[3]

\* The Ord of the keys of bind_table: (TableName, Option<TableName>, Option<JoinType>).
KeyLess(k1, k2) ==
    LET r1 == <<Rank(NameOrder, k1[1]), OptRank(NameOrder, k1[2]), OptRank(JoinOrder, k1[3])>>
        r2 == <<Rank(NameOrder, k2[1]), OptRank(NameOrder, k2[2]), OptRank(JoinOrder, k2[3])>>
    IN \/ r1[1] < r2[1]
       \/ r1[1] = r2[1] /\ r1[2] < r2[2]
       \/ r1[1] = r2[1] /\ r1[2] = r2[2] /\ r1[3] < r2[3]

\* A mutant of FirstKey: the last of the keys in that order.
FirstKeyFromBack(keys) == CHOOSE k \in keys : \A j \in keys \ {k} : KeyLess(j, k)

\* The first of a set of keys in the order a BTreeMap iterates.
FirstKey(keys) == CHOOSE k \in keys : \A j \in keys \ {k} : KeyLess(k, j)

\* BTreeMap::iter, BTreeMap::into_iter: the keys, least first.
RECURSIVE KeysInOrder(_)
KeysInOrder(keys) ==
    IF keys = {} THEN <<>>
    ELSE <<FirstKey(keys)>> \o KeysInOrder(keys \ {FirstKey(keys)})

\* The keys of bind_table in the order the map is iterated.
bind_table_iter(c) == KeysInOrder(DOMAIN bind_table[c])

\* A mutant of MapInsert: the value of an existing key is kept.
MapInsertKeepsFirst(m, k, v) ==
    [x \in DOMAIN m \cup {k} |-> IF x \in DOMAIN m THEN m[x] ELSE v]

\* BTreeMap::insert, HashMap::insert: the value of an existing key is replaced.
MapInsert(m, k, v) == [x \in DOMAIN m \cup {k} |-> IF x = k THEN v ELSE m[x]]

\* The entries of all the bind_table maps together.
RECURSIVE SumCard(_, _)
SumCard(f, n) == IF n = 0 THEN 0 ELSE Cardinality(DOMAIN f[n]) + SumCard(f, n - 1)
NumBound == SumCard(bind_table, NScopes)

\* A mutant of table: the literal name wins when the catalog has it.
table_literal_first(c, table_name) ==
    IF transaction_table(table_name) # None
      THEN [asked |-> table_name, found |-> transaction_table(table_name)]
    ELSE IF table_name \in DOMAIN table_aliases[c]
      THEN [asked |-> table_aliases[c][table_name],
            found |-> transaction_table(table_aliases[c][table_name])]
    ELSE [asked |-> table_name, found |-> None]

\* BinderContext::table: the name the catalog is asked for, and its answer.
table(c, table_name) ==
    IF table_name \in DOMAIN table_aliases[c]
      THEN [asked |-> table_aliases[c][table_name],
            found |-> transaction_table(table_aliases[c][table_name])]
      ELSE [asked |-> table_name, found |-> transaction_table(table_name)]

\* A call of table (&self).
table_call(c, table_name) ==
    /\ ret' = [op |-> "table", ctx |-> c, name |-> table_name,
               asked |-> table(c, table_name).asked,
               val |-> table(c, table_name).found]
    /\ UNCHANGED <<ctxVars, parent, tempVars, logVars>>

\* A mutant of table_and_bind_table: when the catalog lacks the aliased name,
\* the literal name is tried.
table_and_bind_table_falls_back(c, table_name) ==
    IF /\ table_name \in DOMAIN table_aliases[c]
       /\ transaction_table(table_aliases[c][table_name]) # None
      THEN [asked |-> table_aliases[c][table_name],
            found |-> transaction_table(table_aliases[c][table_name])]
      ELSE [asked |-> table_name, found |-> transaction_table(table_name)]

\* The lookup table_and_bind starts with (let table = ...), before ok_or.
table_and_bind_table(c, table_name) ==
    IF table_name \in DOMAIN table_aliases[c]
      THEN [asked |-> table_aliases[c][table_name],
            found |-> transaction_table(table_aliases[c][table_name])]
      ELSE [asked |-> table_name, found |-> transaction_table(table_name)]

\* BinderContext::table_and_bind
table_and_bind(c, table_name, alias, join_type) ==
    LET t == table_and_bind_table(c, table_name)
        key == <<table_name, alias, join_type>>
    IN
    /\ t.found # None /\ key \notin DOMAIN bind_table[c] => NumBound < MaxBound
    /\ IF t.found = None
         THEN /\ ret' = [op |-> "table_and_bind", ctx |-> c, name |-> table_name,
                         key |-> key, asked |-> t.asked, val |-> Err(<<"TableNotFound">>)]
              /\ UNCHANGED bind_table
         ELSE /\ bind_table' = [bind_table EXCEPT ![c] = MapInsert(@, key, Unwrap(t.found))]
              /\ ret' = [op |-> "table_and_bind", ctx |-> c, name |-> table_name,
                         key |-> key, asked |-> t.asked, val |-> Ok(Unwrap(t.found))]
    /\ UNCHANGED <<expr_aliases, table_aliases, group_by_exprs, agg_calls, using,
                   bind_step, sub_queries, parent, tempVars, logVars>>

\* BinderContext::add_table_alias
add_table_alias(c, alias, table_name) ==
    /\ table_aliases' = [table_aliases EXCEPT ![c] = MapInsert(@, alias, table_name)]
    /\ ret' = [op |-> "add_table_alias", ctx |-> c, name |-> alias, val |-> table_name]
    /\ UNCHANGED <<bind_table, expr_aliases, group_by_exprs, agg_calls, using,
                   bind_step, sub_queries, parent, tempVars, logVars>>

\* The contexts the alias operations are run on: the root's.
TableScopes == {1}
\* The names given to table and table_and_bind, and the aliases and join
\* types given to table_and_bind.
TableInputs == {"t1", "a"}
AliasInputs == {None, Some("a"), Some("b")}
JoinInputs == {None, Some("Inner")}
\* The aliases given to add_table_alias, and the names they are given for.
AliasKeys == {"a", "t1"}
AliasTargets == {"t1", "t2", "a"}

InitTable ==
    /\ NewContexts
    /\ ChainBinders
    /\ temp_table_id = 0
    /\ NewTemp
    /\ NewLogs
    /\ ret = NoRet

NextTable ==
    \E c \in TableScopes :
        \/ \E a \in AliasKeys, t \in AliasTargets : add_table_alias(c, a, t)
        \/ \E n \in TableInputs : table_call(c, n)
        \/ \E n \in TableInputs, a \in AliasInputs, j \in JoinInputs :
              table_and_bind(c, n, a, j)

SpecTable == InitTable /\ [][NextTable]_vars

\* C7: table and table_and_bind look the name up in the alias map first: when
\* the name is a key of the alias map the catalog is asked for the mapped
\* name, and the answer is the catalog's table of the mapped name or none,
\* whether or not the catalog has a table of the literal name; otherwise the
\* catalog is asked for the literal name.
C7_AliasMapFirst ==
    ret.op \in {"table", "table_and_bind"} =>
        LET aliases == table_aliases[ret.ctx]
            real == IF ret.name \in DOMAIN aliases THEN aliases[ret.name] ELSE ret.name
            found == IF ret.op = "table" THEN ret.val
                     ELSE IF ret.val.ok THEN Some(ret.val.val) ELSE None
        IN /\ ret.asked = real
           /\ found = IF real \in CatalogTables THEN Some(real) ELSE None

\* C7's case: t1 is an alias of t2 and the catalog has a table t1 too; the
\* lookup of t1 answered with the catalog's t2.
C7_Witness ==
    /\ ret.op = "table_and_bind"
    /\ ret.name = "t1"
    /\ "t1" \in DOMAIN table_aliases[ret.ctx]
    /\ table_aliases[ret.ctx]["t1"] = "t2"
    /\ ret.val = Ok("t2")

\* ------------------------------------------------------- bind_table

\* The keys of context c that the identifier matches: by table name or by alias.
MatchingKeys(c, table_name) ==
    {k \in DOMAIN bind_table[c] : k[1] = table_name \/ k[2] = Some(table_name)}

\* A mutant of bind_table_lookup: the walk ends at the parent given.
RECURSIVE bind_table_one_hop(_, _, _)
bind_table_one_hop(c, table_name, p) ==
    IF MatchingKeys(c, table_name) # {}
      THEN Ok(bind_table[c][FirstKey(MatchingKeys(c, table_name))])
    ELSE IF p # None
      THEN bind_table_one_hop(Unwrap(p), table_name, None)
    ELSE Err(<<"InvalidTable", table_name>>)

\* BinderContext::bind_table (the method): the first matching entry of the
\* context in key order, else the parent binder's answer, else InvalidTable.
RECURSIVE bind_table_lookup(_, _, _)
bind_table_lookup(c, table_name, p) ==
    IF MatchingKeys(c, table_name) # {}
      THEN Ok(bind_table[c][FirstKey(MatchingKeys(c, table_name))])
    ELSE IF p # None
      THEN bind_table_lookup(Unwrap(p), table_name, parent[Unwrap(p)])
    ELSE Err(<<"InvalidTable", table_name>>)

\* A call of bind_table (&self) with a parent binder, or none.
bind_table_call(c, table_name, p) ==
    /\ ret' = [op |-> "bind_table", ctx |-> c, name |-> table_name, parent |-> p,
               val |-> bind_table_lookup(c, table_name, p)]
    /\ UNCHANGED <<ctxVars, parent, tempVars, logVars>>

\* The names and aliases the scopes bind, and the identifiers looked up.
ScopeTables == {"t1", "t2"}
ScopeAliases == {None, Some("a")}
ScopeIdents == {"t1", "a"}

InitScope ==
    /\ NewContexts
    /\ ChainBinders
    /\ temp_table_id = 0
    /\ NewTemp
    /\ NewLogs
    /\ ret = NoRet

NextScope ==
    \E c \in Scopes :
        \/ \E n \in ScopeTables, a \in ScopeAliases, j \in JoinInputs :
              table_and_bind(c, n, a, j)
        \/ \E n \in ScopeIdents, p \in {None} \cup {Some(b) : b \in Scopes} :
              bind_table_call(c, n, p)

SpecScope == InitScope /\ [][NextScope]_vars

\* The binders from binder b up to the root, b included.
RECURSIVE UpFrom(_)
UpFrom(b) == {b} \cup (IF parent[b] = None THEN {} ELSE UpFrom(Unwrap(parent[b])))
\* The scopes a lookup in context c with parent p may consult.
ScopeChain(c, p) == {c} \cup (IF p = None THEN {} ELSE UpFrom(Unwrap(p)))

\* C6: bind_table(identifier, parent) succeeds exactly when some scope on the
\* chain from the current scope through the given parent up to the root has a
\* bound key whose table name or alias is the identifier; otherwise it fails
\* with InvalidTable(identifier). With no parent given the chain is the
\* current scope alone.
C6_LookupWalksChain ==
    ret.op = "bind_table" =>
        LET found == \E s \in ScopeChain(ret.ctx, ret.parent) :
                        \E k \in DOMAIN bind_table[s] :
                            k[1] = ret.name \/ k[2] = Some(ret.name)
        IN /\ ret.val.ok <=> found
           /\ ~found => ret.val = Err(<<"InvalidTable", ret.name>>)

\* C6's case: the identifier is an alias bound only in the root, two scopes
\* above the scope of the lookup, and the lookup succeeded.
C6_Witness ==
    /\ ret.op = "bind_table"
    /\ ret.ctx = 3
    /\ ret.parent = Some(2)
    /\ ret.name = "a"
    /\ ret.val.ok
    /\ MatchingKeys(3, "a") = {}
    /\ MatchingKeys(2, "a") = {}
    /\ MatchingKeys(1, "a") # {}

\* ------------------------------ command_type, bind, bind_set_expr

\* The shapes of a parsed statement: a kind of sqlparser's Statement, with
\* the part of it the dispatch looks at, under a number of nested EXPLAINs
\* (Statement::Explain { statement }).
BaseShapes ==
    {[kind |-> k, opt |-> "-"] :
        k \in {"Query", "AlterTable", "CreateTable", "Analyze", "Truncate",
               "ShowTables", "Copy", "CreateIndex", "Grant", "Revoke"}}
    \cup {[kind |-> "Drop", opt |-> o] : o \in {"Table", "View"}}
    \cup {[kind |-> "Insert", opt |-> o] : o \in {"Values", "Select"}}
    \cup {[kind |-> "Update", opt |-> o] : o \in {"NoJoins", "Joins"}}
    \cup {[kind |-> "Delete", opt |-> o] : o \in {"NoJoins", "Joins"}}
    \cup {[kind |-> "ExplainTable", opt |-> o] : o \in {"Describe", "Explain"}}
Statements ==
    {[explains |-> n, kind |-> sh.kind, opt |-> sh.opt] :
        n \in 0..MaxExplain, sh \in BaseShapes}

\* The statement an EXPLAIN holds.
Inner(stmt) == [stmt EXCEPT !.explains = @ - 1]
\* The variant of Statement the match sees.
TopKind(stmt) == IF stmt.explains > 0 THEN "Explain" ELSE stmt.kind

\* stmt.to_string(): the statement's text, one word for each EXPLAIN.
to_string(stmt) == [i \in 1..stmt.explains |-> "EXPLAIN"] \o <<stmt.kind, stmt.opt>>

\* A mutant of command_type: EXPLAIN is classified by the statement it holds.
RECURSIVE command_type_of_inner(_)
command_type_of_inner(stmt) ==
    LET k == TopKind(stmt) IN
    IF k = "Explain" THEN command_type_of_inner(Inner(stmt))
    ELSE IF k \in {"CreateTable", "CreateIndex", "AlterTable", "Drop"} THEN Ok("DDL")
    ELSE IF k \in {"Query", "ExplainTable", "ShowTables"} THEN Ok("DQL")
    ELSE IF k \in {"Analyze", "Truncate", "Update", "Delete", "Insert", "Copy"} THEN Ok("DML")
    ELSE Err(<<"UnsupportedStmt">> \o to_string(stmt))

\* command_type
command_type(stmt) ==
    LET k == TopKind(stmt) IN
    IF k \in {"CreateTable", "CreateIndex", "AlterTable", "Drop"} THEN Ok("DDL")
    ELSE IF k \in {"Query", "Explain", "ExplainTable", "ShowTables"} THEN Ok("DQL")
    ELSE IF k \in {"Analyze", "Truncate", "Update", "Delete", "Insert", "Copy"} THEN Ok("DML")
    ELSE Err(<<"UnsupportedStmt">> \o to_string(stmt))

\* What a call ends with: a returned Result, or a panic.
Returned(result, routed) == [outcome |-> "returned", val |-> result, routed |-> routed]
Panic(msg) == [outcome |-> "panic", val |-> [panic |-> msg], routed |-> <<>>]

\* The results a per-kind bind routine may return: a plan, or a typed error.
RoutineResults == {"plan", "TableNotFound"}
\* The binders bind is called on: the root and its child.
BindScopes == {1, 2}

\* A per-kind bind routine (bind_query, bind_insert, ...), result r.
Routine(name, r) ==
    Returned(IF r = "plan" THEN Ok(<<name>>) ELSE Err(<<r>>), <<name>>)

\* bind_explain: the plan wrapped in an explain node.
bind_explain(plan) == Ok(<<"Explain">> \o plan)

\* A mutant of bind: a statement of no handled shape is bound as a query.
RECURSIVE bind_default_query(_, _)
bind_default_query(stmt, r) ==
    LET k == TopKind(stmt) IN
    IF k = "Explain" THEN
        LET plan == bind_default_query(Inner(stmt), r) IN
        IF plan.outcome = "returned" /\ plan.val.ok
          THEN Returned(bind_explain(plan.val.val), Append(plan.routed, "bind_explain"))
          ELSE plan
    ELSE IF k \in {"Drop", "Insert", "Update", "Delete", "ExplainTable"}
      THEN Routine("bind_other", r)
    ELSE Routine("bind_query", r)

\* A mutant of bind: EXPLAIN wraps whatever the inner bind returned, an error
\* as an explain node without a plan below it.
RECURSIVE bind_explain_anything(_, _)
bind_explain_anything(stmt, r) ==
    LET k == TopKind(stmt) IN
    IF k = "Query" THEN Routine("bind_query", r)
    ELSE IF k = "AlterTable" THEN Routine("bind_alter_table", r)
    ELSE IF k = "CreateTable" THEN Routine("bind_create_table", r)
    ELSE IF k = "Drop" THEN
        IF stmt.opt = "Table" THEN Routine("bind_drop_table", r)
        ELSE Panic("not yet implemented")
    ELSE IF k = "Insert" THEN
        IF stmt.opt = "Values" THEN Routine("bind_insert", r)
        ELSE Panic("not yet implemented")
    ELSE IF k = "Update" THEN
        IF stmt.opt # "NoJoins" THEN Panic("not implemented")
        ELSE Routine("bind_update", r)
    ELSE IF k = "Delete" THEN
        IF stmt.opt # "NoJoins" THEN Panic("not implemented")
        ELSE Routine("bind_delete", r)
    ELSE IF k = "Analyze" THEN Routine("bind_analyze", r)
    ELSE IF k = "Truncate" THEN Routine("bind_truncate", r)
    ELSE IF k = "ShowTables" THEN Routine("bind_show_tables", r)
    ELSE IF k = "Copy" THEN Routine("bind_copy", r)
    ELSE IF k = "Explain" THEN
        LET plan == bind_explain_anything(Inner(stmt), r) IN
        IF plan.outcome = "returned"
          THEN Returned(bind_explain(IF plan.val.ok THEN plan.val.val ELSE <<>>),
                        Append(plan.routed, "bind_explain"))
          ELSE plan
    ELSE IF k = "ExplainTable" /\ stmt.opt = "Describe" THEN Routine("bind_describe", r)
    ELSE IF k = "CreateIndex" THEN Routine("bind_create_index", r)
    ELSE Returned(Err(<<"UnsupportedStmt">> \o to_string(stmt)), <<>>)

\* Binder::bind, with r the result of the per-kind routine it calls.
RECURSIVE bind(_, _)
bind(stmt, r) ==
    LET k == TopKind(stmt) IN
    IF k = "Query" THEN Routine("bind_query", r)
    ELSE IF k = "AlterTable" THEN Routine("bind_alter_table", r)
    ELSE IF k = "CreateTable" THEN Routine("bind_create_table", r)
    ELSE IF k = "Drop" THEN
        IF stmt.opt = "Table" THEN Routine("bind_drop_table", r)
        ELSE Panic("not yet implemented")
    ELSE IF k = "Insert" THEN
        IF stmt.opt = "Values" THEN Routine("bind_insert", r)
        ELSE Panic("not yet implemented")
    ELSE IF k = "Update" THEN
        IF stmt.opt # "NoJoins" THEN Panic("not implemented")
        ELSE Routine("bind_update", r)
    ELSE IF k = "Delete" THEN
        IF stmt.opt # "NoJoins" THEN Panic("not implemented")
        ELSE Routine("bind_delete", r)
    ELSE IF k = "Analyze" THEN Routine("bind_analyze", r)
    ELSE IF k = "Truncate" THEN Routine("bind_truncate", r)
    ELSE IF k = "ShowTables" THEN Routine("bind_show_tables", r)
    ELSE IF k = "Copy" THEN Routine("bind_copy", r)
    ELSE IF k = "Explain" THEN
        LET plan == bind(Inner(stmt), r) IN
        IF plan.outcome = "returned" /\ plan.val.ok
          THEN Returned(bind_explain(plan.val.val), Append(plan.routed, "bind_explain"))
          ELSE plan
    ELSE IF k = "ExplainTable" /\ stmt.opt = "Describe" THEN Routine("bind_describe", r)
    ELSE IF k = "CreateIndex" THEN Routine("bind_create_index", r)
    ELSE Returned(Err(<<"UnsupportedStmt">> \o to_string(stmt)), <<>>)

\* The shapes of a SetExpr.
SetExprs == {"Select", "Query", "SetOperation", "Values", "Insert", "Update", "Table"}

\* Binder::bind_set_expr
bind_set_expr(set_expr, r) ==
    IF set_expr = "Select" THEN Routine("bind_select", r)
    ELSE IF set_expr = "Query" THEN Routine("bind_query", r)
    ELSE IF set_expr = "SetOperation" THEN Routine("bind_set_operation", r)
    ELSE Panic("not yet implemented")

\* A panic has ended the thread that was binding.
Panicked == ret.op \in {"bind", "bind_set_expr"} /\ ret.val.outcome = "panic"

\* What a per-kind routine that ran may have done to the binder's context:
\* nothing, or moved it to a later step, or drawn a temp-table name.
RoutineEffects == {"none", "step", "temp_table"}
\* A routine's result with what it did: a routine that fails has stopped
\* before it changed the context.
RoutineRuns == {<<"plan", "none">>, <<"plan", "step">>, <<"plan", "temp_table">>,
                <<"TableNotFound", "none">>}
RoutineEffect(b, ran, eff) ==
    /\ bind_step' = IF ran /\ eff = "step" THEN [bind_step EXCEPT ![b] = "Project"]
                    ELSE bind_step
    /\ temp_table_id' = IF ran /\ eff = "temp_table" /\ temp_table_id < MaxTempCalls
                          THEN fetch_add(temp_table_id, 1) ELSE temp_table_id
    /\ UNCHANGED <<bind_table, expr_aliases, table_aliases, group_by_exprs, agg_calls,
                   using, sub_queries, parent, fetched, temp_names, logVars>>

\* A call of bind on binder b.
bind_call(b, stmt, r, eff) ==
    /\ ~Panicked
    /\ ret' = [op |-> "bind", ctx |-> b, stmt |-> stmt, val |-> bind(stmt, r)]
    /\ RoutineEffect(b, bind(stmt, r).routed # <<>>, eff)

\* A call of bind_set_expr on binder b.
bind_set_expr_call(b, set_expr, r, eff) ==
    /\ ~Panicked
    /\ ret' = [op |-> "bind_set_expr", ctx |-> b, stmt |-> set_expr,
               val |-> bind_set_expr(set_expr, r)]
    /\ RoutineEffect(b, bind_set_expr(set_expr, r).routed # <<>>, eff)

\* A call of command_type.
command_type_call(stmt) ==
    /\ ~Panicked
    /\ ret' = [op |-> "command_type", stmt |-> stmt, val |-> command_type(stmt)]
    /\ UNCHANGED <<ctxVars, parent, tempVars, logVars>>

InitBind ==
    /\ NewContexts
    /\ ChainBinders
    /\ temp_table_id = 0
    /\ NewTemp
    /\ NewLogs
    /\ ret = NoRet

NextBind ==
    \/ \E b \in BindScopes, stmt \in Statements, run \in RoutineRuns :
          bind_call(b, stmt, run[1], run[2])
    \/ \E b \in BindScopes, e \in SetExprs, run \in RoutineRuns :
          bind_set_expr_call(b, e, run[1], run[2])
    \/ \E stmt \in Statements : command_type_call(stmt)

SpecBind == InitBind /\ [][NextBind]_vars

\* C8: every call of bind and of bind_set_expr ends by returning a plan or a
\* typed error; none ends in a panic.
C8_BindNeverPanics ==
    ret.op \in {"bind", "bind_set_expr"} => ret.val.outcome = "returned"

\* The kinds of statement the binder is specified to handle.
HandledKinds == {"Query", "CreateTable", "AlterTable", "Drop", "Insert", "Update",
                 "Delete", "Analyze", "Truncate", "ShowTables", "Copy", "Explain",
                 "ExplainTable", "CreateIndex"}

\* C9: bind of a statement of a kind outside the handled set returns
\* UnsupportedStmt with the statement's text, and the contexts, the binder
\* tree and the shared counter are as they were before the call.
C9_UnsupportedLeavesContext ==
    [][(ret'.op = "bind" /\ ret'.stmt.explains = 0 /\ ret'.stmt.kind \notin HandledKinds) =>
            /\ ret'.val.outcome = "returned"
            /\ ret'.val.val = Err(<<"UnsupportedStmt", ret'.stmt.kind, ret'.stmt.opt>>)
            /\ UNCHANGED <<ctxVars, parent, tempVars>>]_vars

\* C9's case: a GRANT statement was given to a binder whose context an
\* earlier bind had moved on, and was refused.
C9_Witness ==
    /\ ret.op = "bind"
    /\ ret.stmt.kind = "Grant"
    /\ ret.stmt.explains = 0
    /\ ~ret.val.val.ok
    /\ bind_step[ret.ctx] = "Project"
    /\ temp_table_id > 0

\* C10: command_type maps create-table, create-index, alter-table and drop to
\* DDL, query, explain, explain-table and show-tables to DQL, analyze,
\* truncate, update, delete, insert and copy to DML, and fails with
\* UnsupportedStmt on every other shape; a call changes no state.
C10_CommandTypeTotal ==
    /\ [](ret.op = "command_type" =>
            LET k == IF ret.stmt.explains > 0 THEN "explain" ELSE ret.stmt.kind IN
            ret.val =
              CASE k \in {"CreateTable", "CreateIndex", "AlterTable", "Drop"} -> Ok("DDL")
                [] k \in {"Query", "explain", "ExplainTable", "ShowTables"} -> Ok("DQL")
                [] k \in {"Analyze", "Truncate", "Update", "Delete", "Insert", "Copy"} -> Ok("DML")
                [] OTHER -> Err(<<"UnsupportedStmt">> \o to_string(ret.stmt)))
    /\ [][ret'.op = "command_type" => UNCHANGED <<ctxVars, parent, tempVars>>]_vars

\* C10's case: an EXPLAIN of a GRANT statement was classified, as DQL.
C10_Witness ==
    /\ ret.op = "command_type"
    /\ ret.stmt.explains > 0
    /\ ret.stmt.kind = "Grant"
    /\ ret.val = Ok("DQL")

\* ------------------------------------ add_using, add_alias, Binder::extend

\* The number of entries (table aliases, expression aliases, using columns
\* and bound tables, over all contexts) the contexts are given directly.
MaxEntries == 4

\* The binders whose contexts are merged: the root and its child.
ExtendScopes == {1, 2}

\* BinderContext::add_using
add_using(c, name) ==
    /\ using' = [using EXCEPT ![c] = @ \cup {name}]
    /\ ret' = [op |-> "add_using", ctx |-> c, name |-> name]
    /\ UNCHANGED <<bind_table, expr_aliases, table_aliases, group_by_exprs, agg_calls,
                   bind_step, sub_queries, parent, tempVars, logVars>>

\* BinderContext::add_alias
add_alias(c, alias_table, alias_column, expr) ==
    /\ expr_aliases' = [expr_aliases EXCEPT
                          ![c] = MapInsert(@, <<alias_table, alias_column>>, expr)]
    /\ ret' = [op |-> "add_alias", ctx |-> c, name |-> alias_column, val |-> expr]
    /\ UNCHANGED <<bind_table, table_aliases, group_by_exprs, agg_calls, using,
                   bind_step, sub_queries, parent, tempVars, logVars>>

\* A mutant of MapExtend: an entry the map already has is kept.
MapExtendKeepsOwn(m, other) ==
    [x \in DOMAIN m \cup DOMAIN other |-> IF x \in DOMAIN m THEN m[x] ELSE other[x]]

\* for (key, value) in other { m.insert(key, value); }
MapExtend(m, other) ==
    [x \in DOMAIN m \cup DOMAIN other |-> IF x \in DOMAIN other THEN other[x] ELSE m[x]]

\* The entries of m that a merge of other replaces by a different value.
Replaced(m, other) == {x \in DOMAIN m \cap DOMAIN other : m[x] # other[x]}

\* Binder::extend: binder c takes the context of binder d. The call moves the
\* context of d; its fields are left as they were, to compare against. What
\* the call returns is (); replaced is the number of entries of c whose value
\* the merge changed.
extend(c, d) ==
    /\ bind_table' = [bind_table EXCEPT ![c] = MapExtend(@, bind_table[d])]
    /\ expr_aliases' = [expr_aliases EXCEPT ![c] = MapExtend(@, expr_aliases[d])]
    /\ table_aliases' = [table_aliases EXCEPT ![c] = MapExtend(@, table_aliases[d])]
    /\ ret' = [op |-> "extend", ctx |-> c, from |-> d,
               replaced |-> Cardinality(Replaced(bind_table[c], bind_table[d]))
                            + Cardinality(Replaced(expr_aliases[c], expr_aliases[d]))
                            + Cardinality(Replaced(table_aliases[c], table_aliases[d]))]
    /\ UNCHANGED <<group_by_exprs, agg_calls, using, bind_step, sub_queries, parent,
                   tempVars, logVars>>

\* The entries the contexts hold.
RECURSIVE SumEntries(_)
SumEntries(n) ==
    IF n = 0 THEN 0
    ELSE Cardinality(DOMAIN bind_table[n]) + Cardinality(DOMAIN expr_aliases[n])
         + Cardinality(DOMAIN table_aliases[n]) + Cardinality(using[n])
         + SumEntries(n - 1)
NumEntries == SumEntries(NScopes)

\* The names given to table_and_bind, the aliases given to add_table_alias
\* and the names they stand for, the expression aliases, the columns of USING.
ExtendTables == {"a", "t1"}
ExtendAliases == {None, Some("b")}
ExtendAliasKeys == {"a", "t1"}
ExtendAliasTargets == {"t1", "t2"}
ExtendExprKeys == {<<None, "x">>}
UsingInputs == {"c1"}

\* A subquery of the given plan.
Staged(plan) == [kind |-> "SubQuery", negated |-> FALSE, plan |-> plan]

\* The two binders are in the middle of a SELECT, the root past its WHERE
\* clause with one subquery waiting, its child at the select list; each has
\* aggregate calls and group-by expressions of its own.
InitExtend ==
    /\ bind_table = [c \in Scopes |-> EmptyMap]
    /\ expr_aliases = [c \in Scopes |-> EmptyMap]
    /\ table_aliases = [c \in Scopes |-> EmptyMap]
    /\ using = [c \in Scopes |-> {}]
    /\ agg_calls = [c \in Scopes |-> IF c = 1 THEN <<"e1">>
                                     ELSE IF c = 2 THEN <<"e2", "e1">> ELSE <<>>]
    /\ group_by_exprs = [c \in Scopes |-> IF c = 2 THEN <<"e2">> ELSE <<>>]
    /\ bind_step = [c \in Scopes |-> IF c = 1 THEN "Where"
                                     ELSE IF c = 2 THEN "Project" ELSE "From"]
    /\ sub_queries = [c \in Scopes |->
                        IF c = 1 THEN [s \in {"Where"} |-> <<Staged(1)>>]
                        ELSE IF c = 2 THEN [s \in {"Having"} |-> <<Staged(2)>>]
                        ELSE EmptyMap]
    /\ ChainBinders
    /\ temp_table_id = 0
    /\ NewTemp
    /\ NewLogs
    /\ ret = NoRet

NextExtend ==
    \/ \E c \in ExtendScopes :
          \/ /\ NumEntries < MaxEntries
             /\ \/ \E a \in ExtendAliasKeys, t \in ExtendAliasTargets :
                      add_table_alias(c, a, t)
                \/ \E k \in ExtendExprKeys, e \in Exprs : add_alias(c, k[1], k[2], e)
                \/ \E n \in UsingInputs : add_using(c, n)
                \/ \E n \in ExtendTables, a \in ExtendAliases, j \in JoinInputs :
                      table_and_bind(c, n, a, j)
    \/ \E c, d \in ExtendScopes : parent[d] = Some(c) /\ extend(c, d)

SpecExtend == InitExtend /\ [][NextExtend]_vars

\* The maps extend merges, and the fields it leaves alone.
C11_Merged(c) == <<bind_table[c], expr_aliases[c], table_aliases[c]>>
C11_Kept(c) == <<agg_calls[c], group_by_exprs[c], using[c], bind_step[c], sub_queries[c]>>

\* C11: extend(child) merges exactly the child's bound-table, expression-alias
\* and table-alias maps into the parent: afterwards every key of each of the
\* child's three maps has the child's value in the parent, every key that only
\* the parent had keeps the parent's value, the parent has no other key, and
\* the parent's aggregate calls, group-by expressions, using set, step and
\* staged subqueries are unchanged.
C11_ExtendMergesThreeMaps ==
    [][\A p, ch \in Scopes :
         ret'.op = "extend" /\ ret'.ctx = p /\ ret'.from = ch =>
            /\ \A i \in 1..3 :
                 LET old == C11_Merged(p)[i]
                     new == C11_Merged(p)'[i]
                     given == C11_Merged(ch)[i]
                 IN /\ DOMAIN new = DOMAIN old \cup DOMAIN given
                    /\ \A k \in DOMAIN given : new[k] = given[k]
                    /\ \A k \in DOMAIN old \ DOMAIN given : new[k] = old[k]
            /\ C11_Kept(p)' = C11_Kept(p)]_vars

\* C11's case: a merge replaced a value of the parent by the child's, the
\* parent keeps a key the child does not have, and the child's using set and
\* aggregate calls differ from the parent's.
C11_Witness ==
    /\ ret.op = "extend"
    /\ ret.replaced > 0
    /\ \E k \in DOMAIN table_aliases[ret.ctx] : k \notin DOMAIN table_aliases[ret.from]
    /\ using[ret.from] # using[ret.ctx]
    /\ agg_calls[ret.from] # agg_calls[ret.ctx]

\* ---------------------------------------------- claims on table_and_bind

\* C12: a successful table_and_bind leaves one entry for its key, holding the
\* catalog table this call resolved: a key bound before is not counted twice
\* and its entry is replaced by the last bind's table, a new key adds one
\* entry, and the entries of all other keys stay as they were; so one table
\* bound under two aliases has two entries, both holding that table.
C12_OneEntryPerKey ==
    [][\A c \in Scopes :
         ret'.op = "table_and_bind" /\ ret'.ctx = c /\ ret'.val.ok =>
            LET key == ret'.key
                old == bind_table[c]
                new == bind_table'[c]
            IN /\ DOMAIN new = DOMAIN old \cup {key}
               /\ Cardinality(DOMAIN new) =
                    Cardinality(DOMAIN old) + (IF key \in DOMAIN old THEN 0 ELSE 1)
               /\ new[key] = ret'.val.val
               /\ \A k \in DOMAIN old \ {key} : new[k] = old[k]]_vars

\* C12's case: a self-join, t1 AS a and t1 AS b bound in one scope: two
\* entries, both holding the catalog's t1.
C12_Witness ==
    /\ ret.op = "table_and_bind"
    /\ ret.val = Ok("t1")
    /\ ret.key[1] = "t1"
    /\ ret.key[2] = Some("b")
    /\ \E j \in JoinInputs :
          /\ <<"t1", Some("a"), j>> \in DOMAIN bind_table[ret.ctx]
          /\ bind_table[ret.ctx][<<"t1", Some("a"), j>>] = "t1"
    /\ bind_table[ret.ctx][ret.key] = "t1"
    /\ Cardinality(DOMAIN bind_table[ret.ctx]) = 2

\* The key as the triple of the positions of its table name, alias and join
\* type, an absent alias or join type before every present one.
KeyPosition(k) ==
    <<Rank(NameOrder, k[1]),
      IF k[2] = None THEN 0 ELSE Rank(NameOrder, k[2][1]),
      IF k[3] = None THEN 0 ELSE Rank(JoinOrder, k[3][1])>>
\* The lexicographic order of triples.
TripleBefore(s, t) == \E i \in 1..3 : s[i] < t[i] /\ \A j \in 1..(i - 1) : s[j] = t[j]

C14_NoAliasChains ==
    \A c \in Scopes :
        \A a \in DOMAIN table_aliases[c] :
            table_aliases[c][a] \notin DOMAIN table_aliases[c]

\* ----------------------------------------------------- claims on step

\* C15: a context that has made no move is at From; step(s) is accepted
\* whatever the current step and the target are; after it step_now() is s and
\* is_step(s) holds; and it changes nothing else: the bound tables, aliases,
\* aggregate calls, group-by expressions, using set, staged subqueries and the
\* counter of the context, and every other context, are as before.
C15_StepAnyOrder ==
    /\ [](ret = NoRet => \A c \in Scopes : step_now(c) = "From")
    /\ [](\A c \in StepScopes, s \in Steps : ENABLED step(c, s))
    /\ [][\A c \in Scopes, s \in Steps :
            ret'.op = "step" /\ ret'.ctx = c /\ ret'.val = s =>
               /\ step_now(c)' = s
               /\ is_step(c, s)'
               /\ \A d \in Scopes \ {c} : bind_step'[d] = bind_step[d]
               /\ UNCHANGED <<bind_table, expr_aliases, table_aliases, group_by_exprs,
                              agg_calls, using, sub_queries, parent, tempVars>>]_vars

\* C15's case: the context went back to From from Limit, where it had staged
\* a subquery that still waits.
C15_Witness ==
    /\ ret.op = "step"
    /\ ret.val = "From"
    /\ step_now(ret.ctx) = "From"
    /\ "Limit" \in DOMAIN sub_queries[ret.ctx]
    /\ \E i \in 1..Len(staged) : staged[i].ctx = ret.ctx /\ staged[i].step = "Limit"

\* -------------------------------------------------- is_valid_identifier

\* The length of the strings given to is_valid_identifier.
MaxIdentLen == 3

\* Characters of each class the function tells apart: letters, a digit, the
\* underscore, a character that is none of these; and char::default().
Letters == {"v", "A"}
Numerics == {"1"}
IdentChars == Letters \cup Numerics \cup {"_", "&"}
DefaultChar == "NUL"

\* char::is_alphanumeric, char::is_numeric
is_alphanumeric(ch) == ch \in Letters \cup Numerics
is_numeric(ch) == ch \in Numerics

\* s.chars().next().unwrap_or_default()
FirstCharOrDefault(s) == IF Len(s) = 0 THEN DefaultChar ELSE s[1]

\* A mutant of is_valid_identifier: the test for a name of underscores alone
\* is left out.
is_valid_identifier_two_rules(s) ==
    /\ \A i \in 1..Len(s) : is_alphanumeric(s[i]) \/ s[i] = "_"
    /\ ~is_numeric(FirstCharOrDefault(s))

\* is_valid_identifier
is_valid_identifier(s) ==
    /\ \A i \in 1..Len(s) : is_alphanumeric(s[i]) \/ s[i] = "_"
    /\ ~is_numeric(FirstCharOrDefault(s))
    /\ ~(\A i \in 1..Len(s) : s[i] = "_")

\* A call of is_valid_identifier.
is_valid_identifier_call(s) ==
    /\ ret' = [op |-> "is_valid_identifier", name |-> s, val |-> is_valid_identifier(s)]
    /\ UNCHANGED <<ctxVars, parent, tempVars, logVars>>

\* The strings given: every string of up to MaxIdentLen characters.
IdentInputs == UNION {[1..n -> IdentChars] : n \in 0..MaxIdentLen}

InitIdent ==
    /\ NewContexts
    /\ ChainBinders
    /\ temp_table_id = 0
    /\ NewTemp
    /\ NewLogs
    /\ ret = NoRet

NextIdent == \E s \in IdentInputs : is_valid_identifier_call(s)

SpecIdent == InitIdent /\ [][NextIdent]_vars

\* C16: is_valid_identifier(s) is true if and only if no character of s is
\* other than a letter, a digit or an underscore, s does not start with a
\* digit, and s has a character that is not an underscore; so it is false for
\* the empty string.
C16_ValidIdentifier ==
    ret.op = "is_valid_identifier" =>
        LET s == ret.name
            wellFormed == {i \in 1..Len(s) : s[i] \in {"v", "A", "1", "_"}} = 1..Len(s)
            digitFirst == Len(s) > 0 /\ s[1] = "1"
            named == {i \in 1..Len(s) : s[i] # "_"} # {}
        IN /\ ret.val = (wellFormed /\ ~digitFirst /\ named)
           /\ s = <<>> => ret.val = FALSE

\* C16's case: the name _v1, with an underscore first and a digit last, was
\* found valid.
C16_Witness ==
    /\ ret.op = "is_valid_identifier"
    /\ ret.name = <<"_", "v", "1">>
    /\ ret.val = TRUE

\* ------------------------------------------------- claims on EXPLAIN

\* What bind of an EXPLAIN is to return when the bind of the statement it
\* holds returned inner: the inner plan under an explain node, built after
\* the inner routines ran, or the inner error as it is, with nothing built.
C17_Wrapped(inner) ==
    IF inner.val.ok
      THEN [outcome |-> "returned", val |-> Ok(<<"Explain">> \o inner.val.val),
            routed |-> inner.routed \o <<"bind_explain">>]
      ELSE inner

\* C17: bind of an EXPLAIN statement, at any depth of nesting, binds the
\* statement it holds first and then wraps its plan: when the inner bind
\* returns an error the EXPLAIN returns that error and builds no explain node,
\* and when it returns a plan the EXPLAIN returns exactly that plan under one
\* explain node.
C17_ExplainWrapsInner ==
    ret.op = "bind" /\ ret.stmt.explains > 0 =>
        \E r \in RoutineResults :
            LET inner == bind(Inner(ret.stmt), r) IN
            /\ inner.outcome = "returned" => ret.val = C17_Wrapped(inner)
            /\ inner.outcome = "returned" /\ ~inner.val.ok =>
                 \A i \in 1..Len(ret.val.routed) : ret.val.routed[i] # "bind_explain"
            /\ inner.outcome = "panic" => ret.val = inner

\* C17's case: EXPLAIN EXPLAIN of a query returned the query's plan under two
\* explain nodes, the query bound first.
C17_Witness ==
    /\ ret.op = "bind"
    /\ ret.stmt.explains = 2
    /\ ret.stmt.kind = "Query"
    /\ ret.val.outcome = "returned"
    /\ ret.val.val = Ok(<<"Explain", "Explain", "bind_query">>)
    /\ ret.val.routed = <<"bind_query", "bind_explain", "bind_explain">>

\* ------------------------------------- claims on a failed table_and_bind

\* C18: table_and_bind resolves the name through the alias map, the mapped
\* name on a hit and the literal name otherwise; when the catalog has no table
\* of the resolved name the call fails with TableNotFound and leaves the
\* bound-table map and every other field of the context as they were, also
\* when the catalog has a table of the literal name; the bound-table map
\* changes only in a call that succeeds.
C18_MissLeavesContext ==
    [][\A c \in Scopes :
         ret'.op = "table_and_bind" /\ ret'.ctx = c =>
            LET real == IF ret'.name \in DOMAIN table_aliases[c]
                          THEN table_aliases[c][ret'.name] ELSE ret'.name
            IN /\ real \notin CatalogTables =>
                    /\ ret'.val = Err(<<"TableNotFound">>)
                    /\ UNCHANGED <<ctxVars, parent, tempVars>>
               /\ real \in CatalogTables => ret'.val.ok
               /\ ~ret'.val.ok => bind_table' = bind_table
               /\ ret'.key \notin DOMAIN bind_table[c] /\ ret'.key \in DOMAIN bind_table'[c]
                    => ret'.val.ok]_vars

\* C18's case: t1 is an alias of a, which the catalog lacks; binding t1 failed
\* with TableNotFound although the catalog has a table t1, and the key is not
\* in the map, which holds an earlier entry still.
C18_Witness ==
    /\ ret.op = "table_and_bind"
    /\ ret.name = "t1"
    /\ "t1" \in DOMAIN table_aliases[ret.ctx]
    /\ table_aliases[ret.ctx]["t1"] = "a"
    /\ ret.val = Err(<<"TableNotFound">>)
    /\ ret.key \notin DOMAIN bind_table[ret.ctx]
    /\ DOMAIN bind_table[ret.ctx] # {}

\* ------------------------------------- claims on the closed set of shapes

\* C19: bind and command_type reject the same statements: the dispatch of
\* bind fails with UnsupportedStmt carrying the statement's text if and only
\* if command_type fails so, and a statement command_type classifies, an
\* explain-table with or without the describe alias among them, is handed by
\* bind to a per-kind routine.
C19_SameClosedSet ==
    ret.op = "bind" =>
        LET unsupported == Returned(Err(<<"UnsupportedStmt">> \o to_string(ret.stmt)), <<>>)
        IN /\ (ret.val = unsupported) <=> (command_type(ret.stmt) = unsupported.val)
           /\ command_type(ret.stmt).ok /\ ret.stmt.explains = 0 /\ ret.val.outcome = "returned"
                => ret.val.routed # <<>>

\* ------------------------------------------- claims on shadowing

\* The keys of a scope that an identifier names, by table name or by alias.
C20_Named(c, ident) ==
    {k \in DOMAIN bind_table[c] : k[1] = ident \/ (k[2] # None /\ k[2][1] = ident)}

\* C20: when the current scope has a bound key that the identifier names,
\* bind_table answers from the current scope whatever the ancestors have
\* bound, an inner binding shadowing an outer one of the same name; and of
\* several such keys it answers with the entry of the least, in the order of
\* (table name, alias, join type).
C20_NearestThenLeast ==
    ret.op = "bind_table" /\ C20_Named(ret.ctx, ret.name) # {} =>
        \E k \in C20_Named(ret.ctx, ret.name) :
            /\ \A j \in C20_Named(ret.ctx, ret.name) \ {k} :
                  TripleBefore(KeyPosition(k), KeyPosition(j))
            /\ ret.val = Ok(bind_table[ret.ctx][k])

\* C20's case: the scope and the parent given both have a table under the
\* alias a, different tables; the lookup of a answered with the scope's own.
C20_Witness ==
    /\ ret.op = "bind_table"
    /\ ret.name = "a"
    /\ ret.parent # None
    /\ \E k \in C20_Named(ret.ctx, "a"), j \in C20_Named(ret.parent[1], "a") :
          /\ bind_table[ret.ctx][k] # bind_table[ret.parent[1]][j]
          /\ ret.val = Ok(bind_table[ret.ctx][k])

====
